---------------------------- MODULE Spec2Model ----------------------------
(***************************************************************************)
(* A model of the design-space search drivers of HOGBEN                    *)
(* (src/hogben/visualise.py): angle_choice, scan_parameters,               *)
(* angle_choice_with_time, contrast_choice_single, contrast_choice_double  *)
(* and underlayer_choice, of the Sample wrapper and run_main of            *)
(* src/hogben/models/samples.py, and of MonolayerEllen._create_objectives  *)
(* of src/hogben/Monolayer_model.py.                                       *)
(*                                                                         *)
(* One behaviour of the model is one call of one driver, of one Sample     *)
(* method or of run_main, a sequence of conversion calls on one Sample, or *)
(* the import of the monolayer model and one call of its method.  The      *)
(* sample's                                                                *)
(* capability methods (angle_info, contrast_info, underlayer_info),        *)
(* Fisher.from_sample and the matplotlib / save_plot calls are             *)
(* collaborators outside the drivers: a capability call returns any        *)
(* minimum eigenvalue of Eigs or raises any error of SimErrors, a plotting *)
(* call succeeds or raises PlotError.                                      *)
(***************************************************************************)
EXTENDS Integers, Sequences, FiniteSets

(***************************************************************************)
(* Bounds of the model.                                                    *)
(***************************************************************************)
\* longest angle_range / contrast_range of the 1D and pairwise scans
MaxLen == 3
\* longest thickness_range of underlayer_choice
MaxThick == 2
\* longest sld_range of underlayer_choice
MaxSld == 2
\* longest time_range of angle_choice_with_time
MaxTimes == 2
\* longest params list of scan_parameters
MaxParams == 2
\* points of np.linspace(lb, ub, 100) in scan_parameters: the source scans
\* 100 values per parameter, the model NumScanPoints of them
NumScanPoints == 2
\* most components of a refnx Structure / layers of a Refl1D Stack
MaxLayers == 3
\* most conversion calls made on one Sample
MaxCalls == 3

\* the default bound_size of Sample.__vary_structure (0.2), in tenths
BoundSizeTenths == 2

(***************************************************************************)
(* Input domains.                                                          *)
(***************************************************************************)
\* candidate values of a 1D or pairwise range (repetitions allowed)
Cands == {1, 2, 3}
\* values of the ordered (np.linspace-like) ranges
GridVals == {1, 2, 3}
\* minimum eigenvalues a Fisher object can report
Eigs == {0, 1, 2}
\* errors the simulation collaborator can raise
SimErrors == {"SimulationError", "RuntimeError"}
\* the capability tags of hogben.models.base
Capabilities == {"VariableAngle", "VariableContrast", "VariableUnderlayer"}
\* (lb, value, ub) of a refnx Parameter handed to scan_parameters
ParamSettings == {<<0, 1, 2>>, <<0, 0, 1>>}
\* initial_angle_times / angle_times: lists of (angle, points, time)
AngleTimesLists == {<< >>, << <<7, 50, 10>> >>}
\* contrasts / initial_contrasts: lists of contrast SLDs
ContrastLists == {<< >>, <<6>>}

Drivers ==
    {"angle_choice", "scan_parameters", "angle_choice_with_time",
     "contrast_choice_single", "contrast_choice_double", "underlayer_choice"}

\* the methods of hogben.models.samples that are modelled
SampleMethods ==
    {"to_refl1d", "angle_info", "_get_reflectivity_profile",
     "_get_sld_profile", "__vary_structure", "run_main", "conversions",
     "get_structures", "_create_objectives"}

\* a MagneticLayer(SL=1, density=5, mag=6, thick=10, rough=6): a refnx slab
\* of SLD SLD_n = density * SL that also has SLD_m = 0.1 * density * mag
MagneticLayers ==
    {[name |-> "magnetic_layer", thick |-> 10, rough |-> 6, sld_real |-> 5,
      sld_imag |-> 0, SLD_n |-> 5, SLD_m |-> 3]}

\* Monolayer_model.py line 34: self.labels of a MonolayerEllen
Labels == <<"hDPPG-D2O", "dDPPG-NRW", "hDPPG-NRW">>

\* the fields of a MonolayerEllen before _create_objectives has run
NewMonolayer ==
    [labels |-> Labels, structures |-> "unset", objectives |-> "unset"]

\* refnx slabs a structure is built from: SLD(sld, name)(thick, rough), with
\* a zero, a positive and a negative SLD
Slabs ==
    {[name |-> "Air", thick |-> 0, rough |-> 0, sld_real |-> 0, sld_imag |-> 0],
     [name |-> "Layer 1", thick |-> 100, rough |-> 2, sld_real |-> 4,
      sld_imag |-> 1],
     [name |-> "Layer 2", thick |-> 6, rough |-> 3, sld_real |-> -1,
      sld_imag |-> 0]}

\* structure.name of a sample
StructureNames == {"simple_sample", "thin_layer_sample_1"}

\* the six predefined samples, in the order run_main walks them
PredefinedSamples ==
    <<"simple_sample", "many_param_sample", "thin_layer_sample_1",
      "thin_layer_sample_2", "similar_sld_sample_1", "similar_sld_sample_2">>

(***************************************************************************)
(* Pure helpers.                                                           *)
(***************************************************************************)
\* all sequences over S of length 0..n
SeqsUpTo(S, n) == UNION {[1..k -> S] : k \in 0..n}

\* the strictly increasing sequences over S of length 0..n
IncSeqsUpTo(S, n) ==
    {s \in SeqsUpTo(S, n) : \A a, b \in 1..Len(s) : a < b => s[a] < s[b]}

\* max() of a non-empty sequence of integers
MaxOf(s) == CHOOSE m \in {s[k] : k \in 1..Len(s)} : \A k \in 1..Len(s) : s[k] <= m

\* min() of a non-empty sequence of integers
MinOf(s) == CHOOSE m \in {s[k] : k \in 1..Len(s)} : \A k \in 1..Len(s) : m <= s[k]

\* a mutant of ArgMax: the last index holding the maximum
ArgMaxLast(s) ==
    CHOOSE k \in 1..Len(s) :
        /\ s[k] = MaxOf(s)
        /\ \A l \in 1..Len(s) : l > k => s[l] < s[k]

\* a mutant of ArgMax: the first index holding the minimum
ArgMinFirst(s) ==
    CHOOSE k \in 1..Len(s) :
        /\ s[k] = MinOf(s)
        /\ \A l \in 1..Len(s) : l < k => s[l] > s[k]

\* np.argmax of a non-empty sequence: the first index holding the maximum
\* (1-based here, 0-based in numpy)
ArgMax(s) ==
    CHOOSE k \in 1..Len(s) :
        /\ s[k] = MaxOf(s)
        /\ \A l \in 1..Len(s) : l < k => s[l] < s[k]

\* the capability tag a driver asserts on its sample ("" for none)
Required(f) ==
    CASE f \in {"angle_choice", "angle_choice_with_time"} -> "VariableAngle"
      [] f \in {"contrast_choice_single", "contrast_choice_double"} -> "VariableContrast"
      [] f = "underlayer_choice" -> "VariableUnderlayer"
      [] OTHER -> ""

\* a mutant of IsInstance: the check always passes
IsInstanceAlways(c, tag) == TRUE

\* isinstance(sample, tag) for a sample carrying the capability tags c
IsInstance(c, tag) == tag \in c

\* a mutant of Propagate: the failure is wrapped in another error
PropagateWrapped(e) == "SearchError"

\* an exception raised inside a driver's loop body reaches the caller as it
\* is: no driver has a try/except
Propagate(e) == e

\* a mutant of Candidate: the range is walked backwards
CandidateReversed(r, k) == r[Len(r) + 1 - k]

\* the k-th value enumerate(range) / for ... in range yields
Candidate(r, k) == r[k]

\* one call of a capability method, as the sample sees it
Call(m, at, cs, us) ==
    [method |-> m, angle_times |-> at, contrasts |-> cs, underlayers |-> us,
     ret |-> << >>]

\* the call c, once it has returned a Fisher object of minimum eigenvalue e
Returning(c, e) == [c EXCEPT !.ret = <<e>>]

\* sample.name of the sample a driver is called with
SampleName == "sample"

\* plt.figure() and the ax.plot / ax.plot_trisurf / line.set_data call that
\* draws the data (xs, ys[, zs]) on it
Figure(name, xs, ys, zs) ==
    [via |-> "matplotlib", dir |-> "", what |-> name,
     x |-> xs, y |-> ys, z |-> zs]

\* save_plot(fig, os.path.join(save_path, dir), name): the figure, holding
\* the data, is handed over and written as save_path/dir/name
SavePlot(dir, name, xs, ys, zs) ==
    [via |-> "save_plot", dir |-> dir, what |-> name,
     x |-> xs, y |-> ys, z |-> zs]

\* a mutant of PlotAndSave: nothing is drawn and nothing is written
PlotAndSaveNothing(dir, name, xs, ys, zs) == << >>

\* a mutant of PlotAndSave: the data goes to save_plot only, no figure is
\* drawn by the caller
PlotAndSaveHandedOver(dir, name, xs, ys, zs) ==
    <<SavePlot(dir, name, xs, ys, zs)>>

\* the plotting tail of a driver or profile method: it draws the figure
\* itself and then hands the figure to save_plot
PlotAndSave(dir, name, xs, ys, zs) ==
    <<Figure(name, xs, ys, zs), SavePlot(dir, name, xs, ys, zs)>>

VARIABLES
    fn,         \* the driver that was called
    caps,       \* the capability tags the sample is an instance of
    args,       \* the arguments of the call, as passed
    structure,  \* the structure the Sample holds (self.structure)
    monolayer,  \* the fields of the MonolayerEllen object
    baseline,   \* the caller's baseline list object (initial_angle_times,
                \* initial_contrasts), as it currently is
    pc,         \* position in the driver: "start", ..., "done" | "failed"
    i,          \* outer loop position (1-based)
    j,          \* inner loop position (1-based)
    min_eigs,   \* the local list min_eigs (eigenvals in scan_parameters)
    x,          \* the local list x (2D and pairwise scans)
    y,          \* the local list y (2D and pairwise scans)
    contrasts,  \* contrast_choice_double: the array of pairs
    params,     \* scan_parameters: the current value of each Parameter
    old_value,  \* scan_parameters: the local old_value
    eigenval_list, \* scan_parameters: the local eigenval_list
    calls,      \* every capability-method call made so far, in order, with
                \* the minimum eigenvalue it returned (ret is << >> if it raised)
    outputs,    \* every call into matplotlib, save_plot or anim.save, in order
    raised,     \* what a collaborator raised ("" while none did)
    error,      \* the exception that left the driver ("" while none did)
    result      \* << >> until the driver returns, then <<value>>

vars ==
    <<fn, caps, args, structure, monolayer, baseline, pc, i, j, min_eigs, x, y, contrasts, params, old_value,
      eigenval_list, calls, outputs, raised, error, result>>

(***************************************************************************)
(* The calls a behaviour can start from.                                   *)
(***************************************************************************)
ArgsOf(f) ==
    CASE f = "angle_choice" ->
            [initial_angle_times : AngleTimesLists,
             angle_range : SeqsUpTo(Cands, MaxLen),
             points_new : {50}, time_new : {10},
             contrasts : ContrastLists]
      [] f = "contrast_choice_single" ->
            [contrast_range : SeqsUpTo(Cands, MaxLen),
             initial_contrasts : ContrastLists,
             angle_times : AngleTimesLists]
      [] f = "contrast_choice_double" ->
            [contrast_range : SeqsUpTo(Cands, MaxLen),
             angle_times : AngleTimesLists]
      [] f = "underlayer_choice" ->
            [thickness_range : IncSeqsUpTo(GridVals, MaxThick),
             sld_range : IncSeqsUpTo(GridVals, MaxSld),
             contrasts : ContrastLists,
             angle_times : AngleTimesLists]
      [] f = "angle_choice_with_time" ->
            [initial_angle : {7},
             angle_range : IncSeqsUpTo(Cands, MaxLen),
             time_range : IncSeqsUpTo(GridVals, MaxTimes),
             points : {50}, new_time : {10},
             contrasts : {<< >>}]
      [] f = "scan_parameters" ->
            [params : SeqsUpTo(ParamSettings, MaxParams),
             angle_times : {<< <<7, 50, 10>> >>}]
      [] f = "angle_info" -> [angle_times : AngleTimesLists]
      [] f = "__vary_structure" -> [bound_size : {BoundSizeTenths}]
      [] f = "_get_reflectivity_profile" -> [points : {500}]
      [] f = "run_main" -> [save_path : {"results"}]
      [] f = "_create_objectives" -> [deuterated : BOOLEAN]
      [] OTHER -> {<< >>}

\* a mutant of Refl1dLayer: real and imaginary SLD change places
Refl1dLayerSwapped(c) ==
    [name |-> c.name, thickness |-> c.thick, interface |-> c.rough,
     rho |-> c.sld_imag, irho |-> c.sld_real]

\* refl1d.material.SLD(rho=sld, irho=sld_imag, name=name)(thick, rough) of a
\* refnx component
Refl1dLayer(c) ==
    [name |-> c.name, thickness |-> c.thick, interface |-> c.rough,
     rho |-> c.sld_real, irho |-> c.sld_imag]

\* refl1d.material.SLD(rho=0, name='Air'), as it sits in a Stack
AirLayer ==
    [name |-> "Air", thickness |-> 0, interface |-> 0, rho |-> 0, irho |-> 0]

\* the structure of a sample that is neither refnx nor Refl1D (a Mock in the
\* tests); the drivers never look at their sample's structure
MockStructure == [flavor |-> "Mock", name |-> SampleName, layers |-> << >>]

\* the structures a Sample can be constructed from
StructuresOf(f) ==
    IF f \in Drivers \cup {"run_main", "_create_objectives"}
    THEN {MockStructure}
    ELSE IF f = "get_structures"
    THEN [flavor : {"Structure"}, name : StructureNames,
          layers : SeqsUpTo(Slabs \cup MagneticLayers, MaxLayers)]
    ELSE [flavor : {"Structure"}, name : StructureNames,
          layers : SeqsUpTo(Slabs, MaxLayers)]
         \cup [flavor : {"Stack"}, name : StructureNames,
               layers : SeqsUpTo({Refl1dLayer(c) : c \in Slabs}, MaxLayers)]
         \cup {MockStructure}

\* the list object the caller passes as baseline
BaselineOf(f, a) ==
    CASE f = "angle_choice" -> a.initial_angle_times
      [] f = "contrast_choice_single" -> a.initial_contrasts
      [] OTHER -> << >>

\* the samples a driver is called with: every capability, every one but the
\* one the driver needs, none (scan_parameters needs none)
CapsOf(f) ==
    IF Required(f) = "" THEN {Capabilities}
    ELSE {Capabilities, Capabilities \ {Required(f)}, {}}

\* np.linspace(lb, ub, NumScanPoints)[k], in units of 1 / (NumScanPoints - 1)
Linspace(lb, ub, k) == lb * (NumScanPoints - 1) + (k - 1) * (ub - lb)

\* a Parameter value v in the units of Linspace
Scaled(v) == v * (NumScanPoints - 1)

InitOf(F) ==
    /\ fn \in F
    /\ caps \in CapsOf(fn)
    /\ structure \in StructuresOf(fn)
    /\ args \in IF fn = "conversions" THEN {[structure |-> structure]}
                ELSE ArgsOf(fn)
    /\ monolayer = IF fn = "_create_objectives" THEN NewMonolayer ELSE << >>
    /\ baseline = BaselineOf(fn, args)
    /\ pc = "start"
    /\ i = 1
    /\ j = 1
    /\ min_eigs = << >>
    /\ x = << >>
    /\ y = << >>
    /\ contrasts = << >>
    /\ params = IF fn = "scan_parameters"
                THEN [k \in 1..Len(args.params) |-> Scaled(args.params[k][2])]
                ELSE << >>
    /\ old_value = 0
    /\ eigenval_list = << >>
    /\ calls = << >>
    /\ outputs = << >>
    /\ raised = ""
    /\ error = ""
    /\ result = << >>

Init == InitOf(Drivers \cup SampleMethods)

(***************************************************************************)
(* angle_choice                                                            *)
(***************************************************************************)
\* lines 53-57: the capability assertion
AngleChoiceAssert ==
    /\ fn = "angle_choice"
    /\ pc = "start"
    /\ IF IsInstance(caps, "VariableAngle")
       THEN /\ pc' = "loop"
            /\ error' = error
       ELSE /\ pc' = "failed"
            /\ error' = "AssertionError"
    /\ UNCHANGED <<fn, monolayer, structure, baseline, caps, args, i, j, min_eigs, x, y, contrasts, params,
                   old_value, eigenval_list, calls, outputs, raised, result>>

\* a mutant of AfterConcat: the entry is appended to the operand in place,
\* as initial.append(entry) or initial += [entry] would
AfterConcatInPlace(initial, entry) == Append(initial, entry)

\* the left operand of the list expression initial + [entry], once the
\* expression is evaluated: + builds a new list and leaves its operands alone
AfterConcat(initial, entry) == initial

\* new_angle_times = initial_angle_times + [(angle_new, points_new, time_new)]
NewAngleTimes(initial, angle_new, points, time) ==
    initial \o << <<angle_new, points, time>> >>

\* lines 61-72: one pass of the loop body
AngleChoiceIter ==
    /\ fn = "angle_choice"
    /\ pc = "loop"
    /\ i <= Len(args.angle_range)
    /\ LET angle_new == Candidate(args.angle_range, i)
           new_angle_times ==
               NewAngleTimes(baseline, angle_new,
                             args.points_new, args.time_new)
       IN  /\ baseline' = AfterConcat(baseline,
                   <<angle_new, args.points_new, args.time_new>>)
           /\ \/ \E e \in Eigs :
                    /\ calls' = Append(calls, Returning(
                           Call("angle_info", new_angle_times, args.contrasts, << >>), e))
                    /\ min_eigs' = Append(min_eigs, e)
                    /\ i' = i + 1
                    /\ UNCHANGED <<pc, raised, error>>
              \/ \E err \in SimErrors :
                    /\ calls' = Append(calls,
                           Call("angle_info", new_angle_times, args.contrasts, << >>))
                    /\ raised' = err
                    /\ error' = Propagate(err)
                    /\ pc' = "failed"
                    /\ UNCHANGED <<min_eigs, i>>
    /\ UNCHANGED <<fn, monolayer, structure, caps, args, j, x, y, contrasts, params, old_value,
                   eigenval_list, outputs, result>>

\* lines 74-83: the figure and its file
AngleChoicePlot ==
    /\ fn = "angle_choice"
    /\ pc = "loop"
    /\ i > Len(args.angle_range)
    /\ \/ /\ outputs' = outputs \o PlotAndSave(SampleName, "angle_choice",
                args.angle_range, min_eigs, << >>)
          /\ pc' = "return"
          /\ UNCHANGED <<raised, error>>
       \/ /\ raised' = "PlotError"
          /\ error' = Propagate("PlotError")
          /\ pc' = "failed"
          /\ UNCHANGED outputs
    /\ UNCHANGED <<fn, monolayer, structure, baseline, caps, args, i, j, min_eigs, x, y, contrasts, params,
                   old_value, eigenval_list, calls, result>>

\* line 86: return angle_range[np.argmax(min_eigs)]; np.argmax of an empty
\* list raises ValueError
AngleChoiceReturn ==
    /\ fn = "angle_choice"
    /\ pc = "return"
    /\ IF min_eigs = << >>
       THEN /\ pc' = "failed"
            /\ error' = "ValueError"
            /\ UNCHANGED result
       ELSE /\ pc' = "done"
            /\ result' = <<args.angle_range[ArgMax(min_eigs)]>>
            /\ UNCHANGED error
    /\ UNCHANGED <<fn, monolayer, structure, baseline, caps, args, i, j, min_eigs, x, y, contrasts, params,
                   old_value, eigenval_list, calls, outputs, raised>>

(***************************************************************************)
(* contrast_choice_single                                                  *)
(***************************************************************************)
\* line 242: the capability assertion
ContrastChoiceSingleAssert ==
    /\ fn = "contrast_choice_single"
    /\ pc = "start"
    /\ IF IsInstance(caps, "VariableContrast")
       THEN /\ pc' = "loop"
            /\ error' = error
       ELSE /\ pc' = "failed"
            /\ error' = "AssertionError"
    /\ UNCHANGED <<fn, monolayer, structure, baseline, caps, args, i, j, min_eigs, x, y, contrasts, params,
                   old_value, eigenval_list, calls, outputs, raised, result>>

\* new_contrast = initial_contrasts + [new_contrast]
NewContrasts(initial, new_contrast) == initial \o <<new_contrast>>

\* lines 246-255: one pass of the loop body
ContrastChoiceSingleIter ==
    /\ fn = "contrast_choice_single"
    /\ pc = "loop"
    /\ i <= Len(args.contrast_range)
    /\ LET new_contrast ==
               NewContrasts(baseline, Candidate(args.contrast_range, i))
       IN  /\ baseline' = AfterConcat(baseline,
                                      Candidate(args.contrast_range, i))
           /\ \/ \E e \in Eigs :
                    /\ calls' = Append(calls, Returning(
                           Call("contrast_info", args.angle_times, new_contrast, << >>), e))
                    /\ min_eigs' = Append(min_eigs, e)
                    /\ i' = i + 1
                    /\ UNCHANGED <<pc, raised, error>>
              \/ \E err \in SimErrors :
                    /\ calls' = Append(calls,
                           Call("contrast_info", args.angle_times, new_contrast, << >>))
                    /\ raised' = err
                    /\ error' = Propagate(err)
                    /\ pc' = "failed"
                    /\ UNCHANGED <<min_eigs, i>>
    /\ UNCHANGED <<fn, monolayer, structure, caps, args, j, x, y, contrasts, params, old_value,
                   eigenval_list, outputs, result>>

\* lines 257-267: the figure and its file
ContrastChoiceSinglePlot ==
    /\ fn = "contrast_choice_single"
    /\ pc = "loop"
    /\ i > Len(args.contrast_range)
    /\ \/ /\ outputs' = outputs \o PlotAndSave(SampleName, "contrast_choice_single",
                args.contrast_range, min_eigs, << >>)
          /\ pc' = "return"
          /\ UNCHANGED <<raised, error>>
       \/ /\ raised' = "PlotError"
          /\ error' = Propagate("PlotError")
          /\ pc' = "failed"
          /\ UNCHANGED outputs
    /\ UNCHANGED <<fn, monolayer, structure, baseline, caps, args, i, j, min_eigs, x, y, contrasts, params,
                   old_value, eigenval_list, calls, result>>

\* line 270: return contrast_range[np.argmax(min_eigs)]
ContrastChoiceSingleReturn ==
    /\ fn = "contrast_choice_single"
    /\ pc = "return"
    /\ IF min_eigs = << >>
       THEN /\ pc' = "failed"
            /\ error' = "ValueError"
            /\ UNCHANGED result
       ELSE /\ pc' = "done"
            /\ result' = <<args.contrast_range[ArgMax(min_eigs)]>>
            /\ UNCHANGED error
    /\ UNCHANGED <<fn, monolayer, structure, baseline, caps, args, i, j, min_eigs, x, y, contrasts, params,
                   old_value, eigenval_list, calls, outputs, raised>>

(***************************************************************************)
(* contrast_choice_double                                                  *)
(***************************************************************************)
RECURSIVE CombinationsFrom(_, _, _)
\* the pairs (r[a], r[b]), (r[a], r[b+1]), ... in itertools order
CombinationsFrom(r, a, b) ==
    IF a >= Len(r) THEN << >>
    ELSE IF b > Len(r) THEN CombinationsFrom(r, a + 1, a + 2)
    ELSE << <<r[a], r[b]>> >> \o CombinationsFrom(r, a, b + 1)

RECURSIVE PermutationsFrom(_, _, _)
PermutationsFrom(r, a, b) ==
    IF a > Len(r) THEN << >>
    ELSE IF b > Len(r) THEN PermutationsFrom(r, a + 1, 1)
    ELSE (IF a = b THEN << >> ELSE << <<r[a], r[b]>> >>)
         \o PermutationsFrom(r, a, b + 1)

\* a mutant of Combinations: itertools.permutations(r, 2)
Permutations2(r) == PermutationsFrom(r, 1, 1)

\* list(itertools.combinations(r, 2)): the pairs of positions a < b, in
\* lexicographic order of (a, b)
Combinations(r) == CombinationsFrom(r, 1, 2)

\* contrasts[:, k]
Column(c, k) == [n \in 1..Len(c) |-> c[n][k]]

\* a mutant of DuplicateY: the second half repeats the first
DuplicateYSame(c) == Column(c, 2) \o Column(c, 2)

\* x = np.concatenate([contrasts[:, 0], contrasts[:, 1]])
DuplicateX(c) == Column(c, 1) \o Column(c, 2)

\* y = np.concatenate([contrasts[:, 1], contrasts[:, 0]])
DuplicateY(c) == Column(c, 2) \o Column(c, 1)

\* lines 288-294: the capability assertion, then the array of pairs
ContrastChoiceDoubleAssert ==
    /\ fn = "contrast_choice_double"
    /\ pc = "start"
    /\ IF IsInstance(caps, "VariableContrast")
       THEN /\ pc' = "loop"
            /\ contrasts' = Combinations(args.contrast_range)
            /\ error' = error
       ELSE /\ pc' = "failed"
            /\ error' = "AssertionError"
            /\ UNCHANGED contrasts
    /\ UNCHANGED <<fn, monolayer, structure, baseline, caps, args, i, j, min_eigs, x, y, params,
                   old_value, eigenval_list, calls, outputs, raised, result>>

\* lines 295-302: one pass of the loop body
ContrastChoiceDoubleIter ==
    /\ fn = "contrast_choice_double"
    /\ pc = "loop"
    /\ i <= Len(contrasts)
    /\ LET contrast_pair == Candidate(contrasts, i)
       IN  /\ \/ \E e \in Eigs :
                    /\ calls' = Append(calls, Returning(
                           Call("contrast_info", args.angle_times, contrast_pair, << >>), e))
                    /\ min_eigs' = Append(min_eigs, e)
                    /\ i' = i + 1
                    /\ UNCHANGED <<pc, raised, error>>
              \/ \E err \in SimErrors :
                    /\ calls' = Append(calls,
                           Call("contrast_info", args.angle_times, contrast_pair, << >>))
                    /\ raised' = err
                    /\ error' = Propagate(err)
                    /\ pc' = "failed"
                    /\ UNCHANGED <<min_eigs, i>>
    /\ UNCHANGED <<fn, monolayer, structure, baseline, caps, args, j, x, y, contrasts, params, old_value,
                   eigenval_list, outputs, result>>

\* lines 307-309: the data is duplicated with the pairs swapped.  With fewer
\* than two candidates np.asarray([]) is one-dimensional and contrasts[:, 0]
\* raises IndexError
ContrastChoiceDoubleDuplicate ==
    /\ fn = "contrast_choice_double"
    /\ pc = "loop"
    /\ i > Len(contrasts)
    /\ IF contrasts = << >>
       THEN /\ pc' = "failed"
            /\ error' = "IndexError"
            /\ UNCHANGED <<x, y, min_eigs>>
       ELSE /\ x' = DuplicateX(contrasts)
            /\ y' = DuplicateY(contrasts)
            /\ min_eigs' = min_eigs \o min_eigs
            /\ pc' = "plot"
            /\ UNCHANGED error
    /\ UNCHANGED <<fn, monolayer, structure, baseline, caps, args, i, j, contrasts, params, old_value,
                   eigenval_list, calls, outputs, raised, result>>

\* lines 311-341: the surface plot, its file and the six views
ContrastChoiceDoublePlot ==
    /\ fn = "contrast_choice_double"
    /\ pc = "plot"
    /\ \/ /\ outputs' = outputs \o PlotAndSave(SampleName, "contrast_choice_double",
                x, y, min_eigs)
          /\ pc' = "return"
          /\ UNCHANGED <<raised, error>>
       \/ /\ raised' = "PlotError"
          /\ error' = Propagate("PlotError")
          /\ pc' = "failed"
          /\ UNCHANGED outputs
    /\ UNCHANGED <<fn, monolayer, structure, baseline, caps, args, i, j, min_eigs, x, y, contrasts, params,
                   old_value, eigenval_list, calls, result>>

\* lines 344-345: maximum = np.argmax(min_eigs); return x[maximum], y[maximum]
ContrastChoiceDoubleReturn ==
    /\ fn = "contrast_choice_double"
    /\ pc = "return"
    /\ LET maximum == ArgMax(min_eigs)
       IN  result' = << <<x[maximum], y[maximum]>> >>
    /\ pc' = "done"
    /\ UNCHANGED <<fn, monolayer, structure, baseline, caps, args, i, j, min_eigs, x, y, contrasts, params,
                   old_value, eigenval_list, calls, outputs, raised, error>>

(***************************************************************************)
(* underlayer_choice                                                       *)
(***************************************************************************)
\* lines 374-378: the capability assertion, then the empty lists
UnderlayerChoiceAssert ==
    /\ fn = "underlayer_choice"
    /\ pc = "start"
    /\ IF IsInstance(caps, "VariableUnderlayer")
       THEN /\ pc' = "loop"
            /\ error' = error
       ELSE /\ pc' = "failed"
            /\ error' = "AssertionError"
    /\ UNCHANGED <<fn, monolayer, structure, baseline, caps, args, i, j, min_eigs, x, y, contrasts, params,
                   old_value, eigenval_list, calls, outputs, raised, result>>

\* a mutant of UnderlayerList: the candidates accumulate in the list
UnderlayerListAccumulated(xs, ys, thick, sld) ==
    [k \in 1..Len(xs) |-> <<xs[k], ys[k]>>] \o << <<thick, sld>> >>

\* the underlayers argument of underlayer_info: [(thick, sld)]
UnderlayerList(xs, ys, thick, sld) == << <<thick, sld>> >>

\* the nested loops are over when the outer one is, or when the inner range
\* is empty (the outer loop then only prints its progress)
UnderlayerLoopDone ==
    \/ i > Len(args.thickness_range)
    \/ Len(args.sld_range) = 0

\* lines 379-391: one pass of the inner loop body
UnderlayerChoiceIter ==
    /\ fn = "underlayer_choice"
    /\ pc = "loop"
    /\ ~UnderlayerLoopDone
    /\ LET thick == Candidate(args.thickness_range, i)
           sld == Candidate(args.sld_range, j)
       IN  /\ \/ \E e \in Eigs :
                    /\ calls' = Append(calls, Returning(
                           Call("underlayer_info", args.angle_times, args.contrasts, UnderlayerList(x, y, thick, sld)), e))
                    /\ min_eigs' = Append(min_eigs, e)
                    /\ x' = Append(x, thick)
                    /\ y' = Append(y, sld)
                    /\ IF j < Len(args.sld_range)
                       THEN /\ j' = j + 1
                            /\ i' = i
                       ELSE /\ j' = 1
                            /\ i' = i + 1
                    /\ UNCHANGED <<pc, raised, error>>
              \/ \E err \in SimErrors :
                    /\ calls' = Append(calls,
                           Call("underlayer_info", args.angle_times, args.contrasts, UnderlayerList(x, y, thick, sld)))
                    /\ raised' = err
                    /\ error' = Propagate(err)
                    /\ pc' = "failed"
                    /\ UNCHANGED <<min_eigs, x, y, i, j>>
    /\ UNCHANGED <<fn, monolayer, structure, baseline, caps, args, contrasts, params, old_value,
                   eigenval_list, outputs, result>>

\* lines 393-424: the surface plot, its file and the 36 views
UnderlayerChoicePlot ==
    /\ fn = "underlayer_choice"
    /\ pc = "loop"
    /\ UnderlayerLoopDone
    /\ \/ /\ outputs' = outputs \o PlotAndSave(SampleName, "underlayer_choice",
                x, y, min_eigs)
          /\ pc' = "return"
          /\ UNCHANGED <<raised, error>>
       \/ /\ raised' = "PlotError"
          /\ error' = Propagate("PlotError")
          /\ pc' = "failed"
          /\ UNCHANGED outputs
    /\ UNCHANGED <<fn, monolayer, structure, baseline, caps, args, i, j, min_eigs, x, y, contrasts, params,
                   old_value, eigenval_list, calls, result>>

\* lines 427-428: maximum = np.argmax(min_eigs); return x[maximum], y[maximum]
UnderlayerChoiceReturn ==
    /\ fn = "underlayer_choice"
    /\ pc = "return"
    /\ IF min_eigs = << >>
       THEN /\ pc' = "failed"
            /\ error' = "ValueError"
            /\ UNCHANGED result
       ELSE /\ pc' = "done"
            /\ LET maximum == ArgMax(min_eigs)
               IN  result' = << <<x[maximum], y[maximum]>> >>
            /\ UNCHANGED error
    /\ UNCHANGED <<fn, monolayer, structure, baseline, caps, args, i, j, min_eigs, x, y, contrasts, params,
                   old_value, eigenval_list, calls, outputs, raised>>

(***************************************************************************)
(* angle_choice_with_time                                                  *)
(***************************************************************************)
\* lines 156-159: the capability assertion
AngleChoiceWithTimeAssert ==
    /\ fn = "angle_choice_with_time"
    /\ pc = "start"
    /\ IF IsInstance(caps, "VariableAngle")
       THEN /\ pc' = "figure"
            /\ error' = error
       ELSE /\ pc' = "failed"
            /\ error' = "AssertionError"
    /\ UNCHANGED <<fn, monolayer, structure, baseline, caps, args, i, j, min_eigs, x, y, contrasts, params,
                   old_value, eigenval_list, calls, outputs, raised, result>>

\* lines 162-208: the figure, its empty line and the animation object.
\* angle_range[0] raises IndexError on an empty range, anim_length // frames
\* raises ZeroDivisionError on an empty time_range; the figure exists by then
AngleChoiceWithTimeFigure ==
    /\ fn = "angle_choice_with_time"
    /\ pc = "figure"
    /\ outputs' = Append(outputs, Figure("figure", << >>, << >>, << >>))
    /\ IF Len(args.angle_range) = 0
       THEN /\ pc' = "failed"
            /\ error' = "IndexError"
       ELSE IF Len(args.time_range) = 0
       THEN /\ pc' = "failed"
            /\ error' = "ZeroDivisionError"
       ELSE /\ pc' = "animate"
            /\ error' = error
    /\ UNCHANGED <<fn, monolayer, structure, baseline, caps, args, i, j, min_eigs, x, y, contrasts, params,
                   old_value, eigenval_list, calls, raised, result>>

\* a mutant of AngleTimesInit: the counting time and the number of points
\* change places
AngleTimesInitMixed(initial_angle, points, time) ==
    << <<initial_angle, time, points>> >>

\* angle_times_init = [(initial_angle, points, time_range[i])]
AngleTimesInit(initial_angle, points, time) ==
    << <<initial_angle, points, time>> >>

\* lines 188-195, inside animate(i) run by anim.save: one pass of the loop
\* body for frame i
AngleChoiceWithTimeIter ==
    /\ fn = "angle_choice_with_time"
    /\ pc = "animate"
    /\ i <= Len(args.time_range)
    /\ j <= Len(args.angle_range)
    /\ LET angle_times_init ==
               AngleTimesInit(args.initial_angle, args.points,
                              Candidate(args.time_range, i))
           angle_times_new ==
               NewAngleTimes(angle_times_init,
                             Candidate(args.angle_range, j),
                             args.points, args.new_time)
       IN  /\ \/ \E e \in Eigs :
                    /\ calls' = Append(calls, Returning(
                           Call("angle_info", angle_times_new, args.contrasts, << >>), e))
                    /\ min_eigs' = Append(min_eigs, e)
                    /\ j' = j + 1
                    /\ UNCHANGED <<pc, raised, error>>
              \/ \E err \in SimErrors :
                    /\ calls' = Append(calls,
                           Call("angle_info", angle_times_new, args.contrasts, << >>))
                    /\ raised' = err
                    /\ error' = Propagate(err)
                    /\ pc' = "failed"
                    /\ UNCHANGED <<min_eigs, j>>
    /\ UNCHANGED <<fn, monolayer, structure, baseline, caps, args, i, x, y, contrasts, params, old_value,
                   eigenval_list, outputs, result>>

\* lines 197-201: the end of animate(i): the line takes the frame's data
\* (x and y stand for the line's data here), and the next frame starts with
\* an empty min_eigs
AngleChoiceWithTimeDraw ==
    /\ fn = "angle_choice_with_time"
    /\ pc = "animate"
    /\ i <= Len(args.time_range)
    /\ j > Len(args.angle_range)
    /\ x' = args.angle_range
    /\ y' = min_eigs
    /\ outputs' = Append(outputs,
           Figure("frame", args.angle_range, min_eigs, << >>))
    /\ min_eigs' = << >>
    /\ i' = i + 1
    /\ j' = 1
    /\ UNCHANGED <<fn, monolayer, structure, baseline, caps, args, pc, contrasts, params, old_value,
                   eigenval_list, calls, raised, error, result>>

\* lines 211-216: the .gif file is written and the animation returned
AngleChoiceWithTimeSave ==
    /\ fn = "angle_choice_with_time"
    /\ pc = "animate"
    /\ i > Len(args.time_range)
    /\ \/ /\ outputs' = Append(outputs,
                [via |-> "anim.save", dir |-> SampleName,
                 what |-> "angle_choice_with_time.gif", x |-> x, y |-> y,
                 z |-> << >>])
          /\ pc' = "done"
          /\ result' = <<"anim">>
          /\ UNCHANGED <<raised, error>>
       \/ /\ raised' = "PlotError"
          /\ error' = Propagate("PlotError")
          /\ pc' = "failed"
          /\ UNCHANGED <<outputs, result>>
    /\ UNCHANGED <<fn, monolayer, structure, baseline, caps, args, i, j, min_eigs, x, y, contrasts, params,
                   old_value, eigenval_list, calls>>

(***************************************************************************)
(* scan_parameters                                                         *)
(***************************************************************************)
\* a mutant of Restore: the parameter keeps the last scanned value
RestoreNothing(old, current) == current

\* line 115: param.value = old_value
Restore(old, current) == old

\* Fisher.from_sample (hogben/utils.py) perturbs the parameters to take its
\* finite differences and puts every value back before it returns
AfterFisher(p) == p

\* lines 104-108: the head of the outer loop body
ScanParametersEnter ==
    /\ fn = "scan_parameters"
    /\ pc = "start"
    /\ i <= Len(params)
    /\ old_value' = params[i]
    /\ min_eigs' = << >>
    /\ j' = 1
    /\ pc' = "inner"
    /\ UNCHANGED <<fn, monolayer, structure, baseline, caps, args, i, x, y, contrasts, params,
                   eigenval_list, calls, outputs, raised, error, result>>

\* lines 109-112: one pass of the inner loop body
ScanParametersValue ==
    /\ fn = "scan_parameters"
    /\ pc = "inner"
    /\ j <= NumScanPoints
    /\ LET lb == args.params[i][1]
           ub == args.params[i][3]
           set == [params EXCEPT ![i] = Linspace(lb, ub, j)]
           call == Call("Fisher.from_sample", args.angle_times, << >>, << >>)
       IN  /\ params' = AfterFisher(set)
           /\ \/ \E e \in Eigs :
                    /\ calls' = Append(calls, Returning(call, e))
                    /\ min_eigs' = Append(min_eigs, e)
                    /\ j' = j + 1
                    /\ UNCHANGED <<pc, raised, error>>
              \/ \E err \in SimErrors :
                    /\ calls' = Append(calls, call)
                    /\ raised' = err
                    /\ error' = Propagate(err)
                    /\ pc' = "failed"
                    /\ UNCHANGED <<min_eigs, j>>
    /\ UNCHANGED <<fn, monolayer, structure, baseline, caps, args, i, x, y, contrasts, old_value,
                   eigenval_list, outputs, result>>

\* lines 113-115: the tail of the outer loop body
ScanParametersLeave ==
    /\ fn = "scan_parameters"
    /\ pc = "inner"
    /\ j > NumScanPoints
    /\ eigenval_list' = Append(eigenval_list, min_eigs)
    /\ params' = [params EXCEPT ![i] = Restore(old_value, params[i])]
    /\ i' = i + 1
    /\ pc' = "start"
    /\ UNCHANGED <<fn, monolayer, structure, baseline, caps, args, j, min_eigs, x, y, contrasts, old_value,
                   calls, outputs, raised, error, result>>

\* lines 116-129: ymax and one figure per parameter; np.max of an empty
\* eigenval_list raises ValueError.  The function returns None
ScanParametersPlot ==
    /\ fn = "scan_parameters"
    /\ pc = "start"
    /\ i > Len(params)
    /\ IF eigenval_list = << >>
       THEN /\ pc' = "failed"
            /\ error' = "ValueError"
            /\ UNCHANGED <<outputs, raised>>
       ELSE \/ /\ outputs' = outputs \o
                    [k \in 1..Len(params) |->
                        Figure("scan_parameters",
                               [n \in 1..NumScanPoints |->
                                   Linspace(args.params[k][1],
                                            args.params[k][3], n)],
                               eigenval_list[k], << >>)]
               /\ pc' = "done"
               /\ UNCHANGED <<raised, error>>
            \/ /\ raised' = "PlotError"
               /\ error' = Propagate("PlotError")
               /\ pc' = "failed"
               /\ UNCHANGED outputs
    /\ UNCHANGED <<fn, monolayer, structure, baseline, caps, args, i, j, min_eigs, x, y, contrasts, params,
                   old_value, eigenval_list, calls, result>>

(***************************************************************************)
(* hogben.models.samples: the Sample wrapper and run_main.                 *)
(* One behaviour is one call of one method on a freshly constructed Sample *)
(* (or one call of run_main).  SLDs, thicknesses and roughnesses are small *)
(* integers; bounds are kept in tenths.                                    *)
(***************************************************************************)
\* the attributes Sample.__init__ sets: the assignment of self.params is
\* commented out
SampleAttrs == {"structure", "name", "scale", "bkg", "dq"}

\* a mutant of InvalidStructureError: the invalid structure is let through
InvalidStructureSilent(f) == ""

\* the else branch of the isinstance chains:
\* raise RuntimeError('invalid structure given')
InvalidStructureError(f) == "RuntimeError"

\* the bounds tuple of __vary_structure for a value v and a bound_size of bs
\* tenths, in tenths: (v * (1 - bound_size), v * (1 + bound_size))
BoundsAround(v, bs) == <<v * (10 - bs), v * (10 + bs)>>

\* p.setp(vary=True, bounds=b) on the refnx Parameter p of value v: the
\* parameter as __vary_structure hands it back, bounds being the pair passed
\* (first entry as lower, second as upper); value is in tenths like bounds
VaryingParameter(owner, what, v, b) ==
    [name |-> owner, of |-> what, value |-> v * 10, vary |-> TRUE,
     bounds |-> b]

\* p.pmp(bound_size * 100) of bumps: the range value -/+ that percentage,
\* lower end first
Pmp(v, bs) ==
    IF v >= 0 THEN <<v * (10 - bs), v * (10 + bs)>>
    ELSE <<v * (10 + bs), v * (10 - bs)>>

\* structure[1:-1]
Interior(layers) == SubSeq(layers, 2, Len(layers) - 1)

\* lines 150-165: the refnx branch of __vary_structure
VaryRefnx(layers, bs) ==
    [k \in 1..(2 * Len(Interior(layers))) |->
        LET component == Interior(layers)[(k + 1) \div 2]
        IN  IF k % 2 = 1
            THEN VaryingParameter(component.name, "sld", component.sld_real,
                                  BoundsAround(component.sld_real, bs))
            ELSE VaryingParameter(component.name, "thick", component.thick,
                                  BoundsAround(component.thick, bs))]

\* lines 170-177: the Refl1D branch of __vary_structure
VaryRefl1d(layers, bs) ==
    [k \in 1..(2 * Len(Interior(layers))) |->
        LET component == Interior(layers)[(k + 1) \div 2]
        IN  IF k % 2 = 1
            THEN VaryingParameter(component.name, "rho", component.rho,
                                  Pmp(component.rho, bs))
            ELSE VaryingParameter(component.name, "thickness",
                                  component.thickness,
                                  Pmp(component.thickness, bs))]

\* Sample.__vary_structure(structure, bound_size)
VaryStructure ==
    /\ fn = "__vary_structure"
    /\ pc = "start"
    /\ IF structure.flavor = "Structure"
       THEN /\ result' = <<VaryRefnx(structure.layers, args.bound_size)>>
            /\ pc' = "done"
            /\ UNCHANGED error
       ELSE IF structure.flavor = "Stack"
       THEN /\ result' = <<VaryRefl1d(structure.layers, args.bound_size)>>
            /\ pc' = "done"
            /\ UNCHANGED error
       ELSE /\ error' = InvalidStructureError(fn)
            /\ pc' = IF error' = "" THEN "done" ELSE "failed"
            /\ UNCHANGED result
    /\ UNCHANGED <<fn, monolayer, structure, baseline, caps, args, i, j, min_eigs, x, y,
                   contrasts, params, old_value, eigenval_list, calls,
                   outputs, raised>>

\* Sample._get_sld_profile(): refnx's sld_profile or Refl1D's smooth_profile
\* computes (z, slds), or fails
GetSldProfile ==
    /\ fn = "_get_sld_profile"
    /\ pc = "start"
    /\ IF structure.flavor \in {"Structure", "Stack"}
       THEN \/ /\ result' = <<"z, slds">>
               /\ pc' = "done"
               /\ UNCHANGED <<raised, error>>
            \/ \E err \in SimErrors :
               /\ raised' = err
               /\ error' = Propagate(err)
               /\ pc' = "failed"
               /\ UNCHANGED result
       ELSE /\ error' = InvalidStructureError(fn)
            /\ pc' = IF error' = "" THEN "done" ELSE "failed"
            /\ UNCHANGED <<raised, result>>
    /\ UNCHANGED <<fn, monolayer, structure, baseline, caps, args, i, j, min_eigs, x, y,
                   contrasts, params, old_value, eigenval_list, calls,
                   outputs>>

\* Sample._get_reflectivity_profile(q_min, q_max, points, scale, bkg, dq),
\* for q_min, q_max and points np.geomspace accepts: reflectivity(q, model)
\* computes r, or fails
GetReflectivityProfile ==
    /\ fn = "_get_reflectivity_profile"
    /\ pc = "start"
    /\ IF structure.flavor \in {"Structure", "Stack"}
       THEN \/ /\ result' = <<"q, r">>
               /\ pc' = "done"
               /\ UNCHANGED <<raised, error>>
            \/ \E err \in SimErrors :
               /\ raised' = err
               /\ error' = Propagate(err)
               /\ pc' = "failed"
               /\ UNCHANGED result
       ELSE /\ error' = InvalidStructureError(fn)
            /\ pc' = IF error' = "" THEN "done" ELSE "failed"
            /\ UNCHANGED <<raised, result>>
    /\ UNCHANGED <<fn, monolayer, structure, baseline, caps, args, i, j, min_eigs, x, y,
                   contrasts, params, old_value, eigenval_list, calls,
                   outputs>>

\* hogben.simulate.simulate(structure, angle_times): what it raises for a
\* structure ("" for none); an unrecognised structure type is refused
SimulateError(s) ==
    IF s.flavor \in {"Structure", "Stack"} THEN "" ELSE "ConfigurationError"

\* a mutant of AngleInfoError: self.params is read before simulate is called
AngleInfoParamsFirst(sim_error, attrs) ==
    IF "params" \notin attrs THEN "AttributeError" ELSE sim_error

\* lines 197-199: simulate runs first, and what it raises leaves angle_info;
\* self.params is read after it and raises AttributeError when unset
AngleInfoError(sim_error, attrs) ==
    IF sim_error # "" THEN sim_error
    ELSE IF "params" \notin attrs THEN "AttributeError" ELSE ""

\* Sample.angle_info(angle_times)
AngleInfo ==
    /\ fn = "angle_info"
    /\ pc = "start"
    /\ \E sim \in {SimulateError(structure)} \cup
                  (IF SimulateError(structure) = "" THEN SimErrors ELSE {}) :
          /\ calls' = Append(calls,
                 Call("simulate", args.angle_times, << >>, << >>))
          /\ raised' = sim
          /\ error' = Propagate(AngleInfoError(sim, SampleAttrs))
          /\ IF error' = ""
             THEN /\ pc' = "done"
                  /\ result' = <<"Fisher">>
             ELSE /\ pc' = "failed"
                  /\ UNCHANGED result
    /\ UNCHANGED <<fn, monolayer, structure, baseline, caps, args, i, j, min_eigs, x, y,
                   contrasts, params, old_value, eigenval_list, outputs>>

\* lines 367-376: for component in components: structure = layer | structure
RECURSIVE StackUp(_, _)
StackUp(components, stack) ==
    IF components = << >> THEN stack
    ELSE StackUp(Tail(components), <<Refl1dLayer(Head(components))>> \o stack)

\* the structure to_refl1d builds from the refnx structure s: the layers of
\* s[1:] stacked on Air, under the name of s.  With no component after the
\* first, nothing is stacked and the result is the bare refl1d.material.SLD
ToRefl1dStructure(s) ==
    LET components == SubSeq(s.layers, 2, Len(s.layers))
    IN  [flavor |-> IF components = << >> THEN "SLD" ELSE "Stack",
         name |-> s.name,
         layers |-> StackUp(components, <<AirLayer>>)]

\* Sample.to_refl1d()
ToRefl1d ==
    /\ fn = "to_refl1d"
    /\ pc = "start"
    /\ IF structure.flavor = "Structure"
       THEN /\ structure' = ToRefl1dStructure(structure)
            /\ pc' = "done"
            /\ UNCHANGED error
       ELSE /\ error' = "AssertionError"
            /\ pc' = "failed"
            /\ UNCHANGED structure
    /\ UNCHANGED <<fn, monolayer, baseline, caps, args, i, j, min_eigs, x, y, contrasts,
                   params, old_value, eigenval_list, calls, outputs, raised,
                   result>>

\* Sample.sld_profile(save_path) of the sample called name: the figure of
\* the profile, saved as save_path/name/sld_profile
SldProfile(name) == PlotAndSave(name, "sld_profile", << >>, << >>, << >>)

\* a mutant of ReflectivityProfile: the figure is saved under the name of
\* the SLD profile
ReflectivityProfileMisnamed(name) ==
    PlotAndSave(name, "sld_profile", << >>, << >>, << >>)

\* Sample.reflectivity_profile(save_path) of the sample called name: the
\* figure of the profile, saved as save_path/name/reflectivity_profile
ReflectivityProfile(name) ==
    PlotAndSave(name, "reflectivity_profile", << >>, << >>, << >>)

\* lines 524-533: one pass of run_main's loop; either profile can fail
RunMainIter ==
    /\ fn = "run_main"
    /\ pc = "start"
    /\ i <= Len(PredefinedSamples)
    /\ \/ /\ outputs' = outputs \o SldProfile(PredefinedSamples[i])
                                \o ReflectivityProfile(PredefinedSamples[i])
          /\ i' = i + 1
          /\ UNCHANGED <<pc, raised, error>>
       \/ /\ raised' = "PlotError"
          /\ error' = Propagate("PlotError")
          /\ pc' = "failed"
          /\ UNCHANGED <<outputs, i>>
       \/ /\ outputs' = outputs \o SldProfile(PredefinedSamples[i])
          /\ raised' = "PlotError"
          /\ error' = Propagate("PlotError")
          /\ pc' = "failed"
          /\ UNCHANGED i
    /\ UNCHANGED <<fn, monolayer, structure, baseline, caps, args, j, min_eigs, x, y,
                   contrasts, params, old_value, eigenval_list, calls,
                   result>>

\* run_main returns None after the last sample
RunMainReturn ==
    /\ fn = "run_main"
    /\ pc = "start"
    /\ i > Len(PredefinedSamples)
    /\ pc' = "done"
    /\ UNCHANGED <<fn, monolayer, structure, baseline, caps, args, i, j, min_eigs, x, y,
                   contrasts, params, old_value, eigenval_list, calls,
                   outputs, raised, error, result>>

(***************************************************************************)
(* Sample.to_refl1d and Sample.to_refnx called one after another on one    *)
(* Sample ("conversions"): the caller makes up to MaxCalls calls, in any   *)
(* order, and goes on after a call that raised.  calls logs each call,     *)
(* ret being <<"None">> if it returned; error is what the last call raised.*)
(***************************************************************************)
\* refnx.reflect.SLD([sld, sld_imag], name=name)(thick, rough) of a Refl1D
\* layer
RefnxSlab(l) ==
    [name |-> l.name, thick |-> l.thickness, rough |-> l.interface,
     sld_real |-> l.rho, sld_imag |-> l.irho]

\* refnx.reflect.SLD(0, name='Air'), as it sits in a Structure
AirSlab ==
    [name |-> "Air", thick |-> 0, rough |-> 0, sld_real |-> 0, sld_imag |-> 0]

\* list(reversed(s))
Reversed(s) == [k \in 1..Len(s) |-> s[Len(s) + 1 - k]]

\* a mutant of ToRefnxStructure: the result still counts as a Refl1D Stack
ToRefnxStructureStillStack(s) ==
    [flavor |-> "Stack", name |-> s.name, layers |-> s.layers]

\* the structure to_refnx builds from the Refl1D stack s: Air, then the
\* layers of reversed(s)[1:], under the name of s.  With no layer after the
\* first of the reversed stack, nothing is added and the result is the bare
\* refnx.reflect.SLD
ToRefnxStructure(s) ==
    LET components == SubSeq(Reversed(s.layers), 2, Len(s.layers))
    IN  [flavor |-> IF components = << >> THEN "refnx.SLD" ELSE "Structure",
         name |-> s.name,
         layers |-> <<AirSlab>> \o
                    [k \in 1..Len(components) |-> RefnxSlab(components[k])]]

\* Sample.to_refl1d() as one call of the sequence
ConvertToRefl1d ==
    /\ fn = "conversions"
    /\ Len(calls) < MaxCalls
    /\ IF structure.flavor = "Structure"
       THEN /\ structure' = ToRefl1dStructure(structure)
            /\ calls' = Append(calls,
                   Returning(Call("to_refl1d", << >>, << >>, << >>), "None"))
            /\ error' = ""
       ELSE /\ error' = "AssertionError"
            /\ calls' = Append(calls, Call("to_refl1d", << >>, << >>, << >>))
            /\ UNCHANGED structure
    /\ UNCHANGED <<fn, monolayer, baseline, caps, args, pc, i, j, min_eigs,
                   x, y, contrasts, params, old_value, eigenval_list,
                   outputs, raised, result>>

\* Sample.to_refnx() as one call of the sequence
ConvertToRefnx ==
    /\ fn = "conversions"
    /\ Len(calls) < MaxCalls
    /\ IF structure.flavor = "Stack"
       THEN /\ structure' = ToRefnxStructure(structure)
            /\ calls' = Append(calls,
                   Returning(Call("to_refnx", << >>, << >>, << >>), "None"))
            /\ error' = ""
       ELSE /\ error' = "AssertionError"
            /\ calls' = Append(calls, Call("to_refnx", << >>, << >>, << >>))
            /\ UNCHANGED structure
    /\ UNCHANGED <<fn, monolayer, baseline, caps, args, pc, i, j, min_eigs,
                   x, y, contrasts, params, old_value, eigenval_list,
                   outputs, raised, result>>

(***************************************************************************)
(* Sample.get_structures                                                   *)
(***************************************************************************)
\* isinstance(layer, MagneticLayer)
IsMagneticLayer(layer) == "SLD_m" \in DOMAIN layer

\* MagneticLayer.spin_up: SLD(SLD_n + SLD_m, name='spin_up')(thick, rough)
SpinUp(layer) ==
    [name |-> "spin_up", thick |-> layer.thick, rough |-> layer.rough,
     sld_real |-> layer.SLD_n + layer.SLD_m, sld_imag |-> 0]

\* MagneticLayer.spin_down: SLD(SLD_n - SLD_m, name='spin_down')(thick, rough)
SpinDown(layer) ==
    [name |-> "spin_down", thick |-> layer.thick, rough |-> layer.rough,
     sld_real |-> layer.SLD_n - layer.SLD_m, sld_imag |-> 0]

\* lines 107-112: the copy of s with every MagneticLayer replaced by its
\* spin_up slab
SpinUpStructure(s) ==
    [s EXCEPT !.layers =
        [k \in 1..Len(s.layers) |->
            IF IsMagneticLayer(s.layers[k]) THEN SpinUp(s.layers[k])
            ELSE s.layers[k]]]

\* lines 108-112: the copy of s with every MagneticLayer replaced by its
\* spin_down slab
SpinDownStructure(s) ==
    [s EXCEPT !.layers =
        [k \in 1..Len(s.layers) |->
            IF IsMagneticLayer(s.layers[k]) THEN SpinDown(s.layers[k])
            ELSE s.layers[k]]]

\* Sample.get_structures(): both copies are always put in the list, so the
\* list is never empty when its length is tested
GetStructures ==
    /\ fn = "get_structures"
    /\ pc = "start"
    /\ LET structures ==
               <<SpinUpStructure(structure), SpinDownStructure(structure)>>
       IN  result' = <<IF Len(structures) = 0 THEN <<structure>>
                       ELSE structures>>
    /\ pc' = "done"
    /\ UNCHANGED <<fn, monolayer, structure, baseline, caps, args, i, j,
                   min_eigs, x, y, contrasts, params, old_value,
                   eigenval_list, calls, outputs, raised, error>>

(***************************************************************************)
(* hogben.Monolayer_model: MonolayerEllen._create_objectives               *)
(***************************************************************************)
\* line 72: h2o, nrw, d2o = -0.5, 0.1, 6.35, in hundredths
ContrastSlds == [h2o |-> -50, nrw |-> 10, d2o |-> 635]

\* _using_conditions(contrast_sld): air | tg_d | hg | water, the water layer
\* having the SLD of the contrast
UsingConditions(contrast_sld) ==
    [contrast |-> contrast_sld,
     layers |-> <<"Air", "Deuterated Tailgroup", "Headgroup", "Water">>]

\* lines 74-78: the list assigned to self.structures
CreatedStructures ==
    <<UsingConditions(ContrastSlds.d2o), UsingConditions(ContrastSlds.h2o),
      UsingConditions(ContrastSlds.nrw)>>

\* the module is imported and its class body run: the annotation
\* Optional[list] of _using_conditions names Optional, which the module
\* never imports.  An interpreter that evaluates annotations when the
\* function is defined raises NameError; one that defers them does not
ImportMonolayerModel ==
    /\ fn = "_create_objectives"
    /\ pc = "start"
    /\ \/ /\ pc' = "imported"
          /\ UNCHANGED error
       \/ /\ pc' = "failed"
          /\ error' = "NameError"
    /\ UNCHANGED <<fn, monolayer, structure, baseline, caps, args, i, j,
                   min_eigs, x, y, contrasts, params, old_value,
                   eigenval_list, calls, outputs, raised, result>>

\* MonolayerEllen._create_objectives()
CreateObjectives ==
    /\ fn = "_create_objectives"
    /\ pc = "imported"
    /\ monolayer' = [monolayer EXCEPT !.structures = CreatedStructures,
                                      !.objectives = << >>]
    /\ pc' = "done"
    /\ UNCHANGED <<fn, structure, baseline, caps, args, i, j, min_eigs, x, y,
                   contrasts, params, old_value, eigenval_list, calls,
                   outputs, raised, error, result>>

(***************************************************************************)
(* Specifications: every call, and one per family.                         *)
(***************************************************************************)
Next1D ==
    \/ AngleChoiceAssert
    \/ AngleChoiceIter
    \/ AngleChoicePlot
    \/ AngleChoiceReturn
    \/ ContrastChoiceSingleAssert
    \/ ContrastChoiceSingleIter
    \/ ContrastChoiceSinglePlot
    \/ ContrastChoiceSingleReturn

NextDouble ==
    \/ ContrastChoiceDoubleAssert
    \/ ContrastChoiceDoubleIter
    \/ ContrastChoiceDoubleDuplicate
    \/ ContrastChoiceDoublePlot
    \/ ContrastChoiceDoubleReturn

NextUnderlayer ==
    \/ UnderlayerChoiceAssert
    \/ UnderlayerChoiceIter
    \/ UnderlayerChoicePlot
    \/ UnderlayerChoiceReturn

NextWithTime ==
    \/ AngleChoiceWithTimeAssert
    \/ AngleChoiceWithTimeFigure
    \/ AngleChoiceWithTimeIter
    \/ AngleChoiceWithTimeDraw
    \/ AngleChoiceWithTimeSave

NextScan ==
    \/ ScanParametersEnter
    \/ ScanParametersValue
    \/ ScanParametersLeave
    \/ ScanParametersPlot

NextSample ==
    \/ VaryStructure
    \/ GetSldProfile
    \/ GetReflectivityProfile
    \/ AngleInfo
    \/ ToRefl1d
    \/ RunMainIter
    \/ RunMainReturn
    \/ ConvertToRefl1d
    \/ ConvertToRefnx
    \/ GetStructures
    \/ ImportMonolayerModel
    \/ CreateObjectives

Next ==
    \/ Next1D
    \/ NextDouble
    \/ NextUnderlayer
    \/ NextWithTime
    \/ NextScan
    \/ NextSample

\* a call of any driver or Sample method
Spec == Init /\ [][Next]_vars

Init1D == InitOf({"angle_choice", "contrast_choice_single"})
\* a call of angle_choice or contrast_choice_single
Spec1D == Init1D /\ [][Next1D]_vars

InitDouble == InitOf({"contrast_choice_double"})
\* a call of contrast_choice_double
SpecDouble == InitDouble /\ [][NextDouble]_vars

InitUnderlayer == InitOf({"underlayer_choice"})
\* a call of underlayer_choice
SpecUnderlayer == InitUnderlayer /\ [][NextUnderlayer]_vars

InitWithTime == InitOf({"angle_choice_with_time"})
\* a call of angle_choice_with_time
SpecWithTime == InitWithTime /\ [][NextWithTime]_vars

InitSample == InitOf(SampleMethods)
\* a call of a Sample method or of run_main
SpecSample == InitSample /\ [][NextSample]_vars

InitScan == InitOf({"scan_parameters"})
\* a call of scan_parameters
SpecScan == InitScan /\ [][NextScan]_vars

(***************************************************************************)
(* Shorthands of the properties.                                           *)
(***************************************************************************)
\* the candidate range of a 1D scan
Range1D ==
    IF fn = "angle_choice" THEN args.angle_range ELSE args.contrast_range

\* the call a 1D scan is to make for the k-th candidate of its range
ExpectedCall1D(k) ==
    IF fn = "angle_choice"
    THEN Call("angle_info",
              args.initial_angle_times
                  \o << <<args.angle_range[k], args.points_new, args.time_new>> >>,
              args.contrasts, << >>)
    ELSE Call("contrast_info", args.angle_times,
              args.initial_contrasts \o <<args.contrast_range[k]>>, << >>)

\* the call c without what it returned
Sent(c) == [c EXCEPT !.ret = << >>]

Is1D == fn \in {"angle_choice", "contrast_choice_single"}

\* C1: a 1D scan over a non-empty range returns the candidate at the first
\* position whose recorded minimum eigenvalue is the maximum of all recorded
\* minimum eigenvalues
C1_FirstMaximum ==
    (Is1D /\ pc = "done" /\ Len(Range1D) > 0) =>
        \E k \in 1..Len(Range1D) :
            /\ result = <<Range1D[k]>>
            /\ calls[k].ret = <<min_eigs[k]>>
            /\ \A l \in 1..Len(Range1D) : calls[l].ret[1] <= calls[k].ret[1]
            /\ \A l \in 1..(k - 1) : calls[l].ret[1] < calls[k].ret[1]

\* angle_choice has returned from a range in which two different candidates
\* share the maximum
C1_Witness ==
    /\ fn = "angle_choice"
    /\ pc = "done"
    /\ \E k, l \in 1..Len(min_eigs) :
          /\ k < l
          /\ min_eigs[k] = MaxOf(min_eigs)
          /\ min_eigs[l] = MaxOf(min_eigs)
          /\ args.angle_range[k] # args.angle_range[l]
          /\ result = <<args.angle_range[k]>>

\* C2: the pair underlayer_choice returns from non-empty ranges is a
\* combination it evaluated, and no evaluated combination has a larger
\* recorded minimum eigenvalue
C2_GridMaximum ==
    (/\ fn = "underlayer_choice"
     /\ pc = "done"
     /\ Len(args.thickness_range) > 0
     /\ Len(args.sld_range) > 0) =>
        \E k \in 1..Len(calls) :
            /\ calls[k].underlayers = <<result[1]>>
            /\ \E a \in 1..Len(args.thickness_range), b \in 1..Len(args.sld_range) :
                  result[1] = <<args.thickness_range[a], args.sld_range[b]>>
            /\ \A l \in 1..Len(calls) : calls[l].ret[1] <= calls[k].ret[1]

\* underlayer_choice has returned a combination of a 2 x 2 grid that is
\* neither the first nor the last one evaluated
C2_Witness ==
    /\ fn = "underlayer_choice"
    /\ pc = "done"
    /\ Len(calls) = 4
    /\ calls[2].ret[1] > calls[1].ret[1]
    /\ calls[2].ret[1] > calls[4].ret[1]
    /\ result = calls[2].underlayers

\* the number of evaluations of a complete 2D scan
GridSize == Len(args.thickness_range) * Len(args.sld_range)

\* the k-th call of a thickness-major walk over the grid
ExpectedGridCall(k) ==
    LET a == ((k - 1) \div Len(args.sld_range)) + 1
        b == ((k - 1) % Len(args.sld_range)) + 1
    IN  Call("underlayer_info", args.angle_times, args.contrasts,
             << <<args.thickness_range[a], args.sld_range[b]>> >>)

\* C3: underlayer_choice calls underlayer_info once per element of
\* thickness_range x sld_range, thickness-major, each call with the
\* single-element list [(thick, sld)] and the contrasts and angle_times it
\* was given; once the loops are over it has made all
\* len(thickness_range) * len(sld_range) calls
C3_GridCalls ==
    fn = "underlayer_choice" =>
        /\ Len(calls) <= GridSize
        /\ \A k \in 1..Len(calls) : Sent(calls[k]) = ExpectedGridCall(k)
        /\ pc \in {"return", "done"} => Len(calls) = GridSize

\* underlayer_choice has returned from a 2 x 2 grid
C3_Witness ==
    /\ fn = "underlayer_choice"
    /\ pc = "done"
    /\ Len(args.thickness_range) = 2
    /\ Len(args.sld_range) = 2
    /\ Len(calls) = 4

\* the pairs of positions a < b of the range r
PositionPairs(r) == {p \in (1..Len(r)) \X (1..Len(r)) : p[1] < p[2]}

\* contrast_choice_double is past its evaluation loop
DoubleLoopOver ==
    \/ pc \in {"plot", "return", "done"}
    \/ error = "IndexError"
    \/ raised = "PlotError"

\* C4: contrast_choice_double evaluates contrast_info once per unordered
\* pair of positions of contrast_range: n*(n-1)/2 evaluations, each of the
\* values at two positions a < b, as many evaluations of a pair of values as
\* there are pairs of positions holding them; over a range of distinct
\* values no evaluation pairs a value with itself and no two evaluations are
\* each other's swap
C4_UnorderedPairs ==
    (fn = "contrast_choice_double" /\ DoubleLoopOver) =>
        LET r == args.contrast_range
            n == Len(r)
        IN  /\ 2 * Len(calls) = n * (n - 1)
            /\ \A k \in 1..Len(calls) :
                  /\ calls[k].method = "contrast_info"
                  /\ calls[k].angle_times = args.angle_times
                  /\ \E p \in PositionPairs(r) :
                        calls[k].contrasts = <<r[p[1]], r[p[2]]>>
            /\ \A u, v \in Cands :
                  Cardinality({k \in 1..Len(calls) :
                      {calls[k].contrasts[1], calls[k].contrasts[2]} = {u, v}})
                  = Cardinality({p \in PositionPairs(r) :
                      {r[p[1]], r[p[2]]} = {u, v}})
            /\ (\A a, b \in 1..n : a # b => r[a] # r[b]) =>
                  \A k, l \in 1..Len(calls) :
                      /\ calls[k].contrasts[1] # calls[k].contrasts[2]
                      /\ k # l =>
                            calls[k].contrasts #
                                <<calls[l].contrasts[2], calls[l].contrasts[1]>>

\* contrast_choice_double has returned from a range of three distinct values
C4_Witness ==
    /\ fn = "contrast_choice_double"
    /\ pc = "done"
    /\ Len(args.contrast_range) = 3
    /\ Cardinality({args.contrast_range[k] : k \in 1..3}) = 3
    /\ Len(calls) = 3

\* C5: once contrast_choice_double has duplicated its data, x, y and
\* min_eigs hold two entries per evaluated pair, and every entry (a, b) has
\* an entry (b, a) with the same minimum eigenvalue
C5_SwapSymmetry ==
    (fn = "contrast_choice_double" /\ pc \in {"plot", "return", "done"}) =>
        /\ Len(x) = 2 * Len(calls)
        /\ Len(y) = Len(x)
        /\ Len(min_eigs) = Len(x)
        /\ \A k \in 1..Len(calls) :
              /\ <<x[k], y[k]>> = calls[k].contrasts
              /\ <<min_eigs[k]>> = calls[k].ret
        /\ \A k \in 1..Len(x) :
              \E l \in 1..Len(x) :
                  /\ x[l] = y[k]
                  /\ y[l] = x[k]
                  /\ min_eigs[l] = min_eigs[k]

\* the duplicated data of three pairs of different minimum eigenvalues is
\* about to be plotted
C5_Witness ==
    /\ fn = "contrast_choice_double"
    /\ pc = "plot"
    /\ Len(x) = 6
    /\ min_eigs[1] # min_eigs[2]
    /\ min_eigs[2] # min_eigs[3]
    /\ x[1] # y[1]

\* C6: from a range of at least two candidates contrast_choice_double
\* returns an evaluated pair, first element at an earlier position of the
\* range than the second, and no evaluated pair has a larger recorded
\* minimum eigenvalue
C6_PairMaximum ==
    (/\ fn = "contrast_choice_double"
     /\ pc = "done"
     /\ Len(args.contrast_range) >= 2) =>
        \E k \in 1..Len(calls) :
            /\ result = <<calls[k].contrasts>>
            /\ \E p \in PositionPairs(args.contrast_range) :
                  result[1] = <<args.contrast_range[p[1]],
                                args.contrast_range[p[2]]>>
            /\ \A l \in 1..Len(calls) : calls[l].ret[1] <= calls[k].ret[1]

\* contrast_choice_double has returned the second of three pairs of
\* distinct values
C6_Witness ==
    /\ fn = "contrast_choice_double"
    /\ pc = "done"
    /\ args.contrast_range = <<1, 2, 3>>
    /\ calls[2].ret[1] > calls[1].ret[1]
    /\ calls[2].ret[1] >= calls[3].ret[1]
    /\ result = <<calls[2].contrasts>>

\* the sample is not an instance of the capability the driver needs
LacksCapability == Required(fn) # "" /\ Required(fn) \notin caps

\* C7 as claimed: a driver called with a sample lacking the capability
\* fails with UnsupportedOperationError before any capability call, figure
\* or file, and returns nothing
C7_AsClaimed ==
    LacksCapability =>
        /\ calls = << >>
        /\ outputs = << >>
        /\ result = << >>
        /\ pc \in {"start", "failed"}
        /\ pc = "failed" => error = "UnsupportedOperationError"

\* C7, amended: a driver called with a sample lacking the capability fails
\* with the AssertionError of its assert statement before any capability
\* call, figure or file, and returns nothing
C7_FailsFast ==
    LacksCapability =>
        /\ calls = << >>
        /\ outputs = << >>
        /\ result = << >>
        /\ pc \in {"start", "failed"}
        /\ pc = "failed" => error = "AssertionError"

\* underlayer_choice has failed on a sample that can vary its angle and
\* contrast but not its underlayer
C7_Witness ==
    /\ fn = "underlayer_choice"
    /\ caps = {"VariableAngle", "VariableContrast"}
    /\ Len(args.thickness_range) > 0
    /\ Len(args.sld_range) > 0
    /\ pc = "failed"
    /\ error = "AssertionError"

\* the positions of params whose value differs from the value at the call
Changed ==
    {k \in 1..Len(params) : params[k] # Scaled(args.params[k][2])}

\* C8: after scan_parameters returns, every Parameter holds the value it had
\* at the call; during the scan at most one parameter differs from that
\* value, and none does when the scan of the next parameter starts
C8_ValuesRestored ==
    fn = "scan_parameters" =>
        /\ pc = "done" => Changed = {}
        /\ pc = "start" => Changed = {}
        /\ Cardinality(Changed) <= 1
        /\ pc = "inner" => Changed \subseteq {i}

\* scan_parameters has returned after scanning two parameters whose values
\* lie strictly inside their bounds
C8_Witness ==
    /\ fn = "scan_parameters"
    /\ pc = "done"
    /\ args.params = << <<0, 1, 2>>, <<0, 1, 2>> >>
    /\ Len(eigenval_list) = 2
    /\ Len(calls) = 2 * NumScanPoints

\* C9: when angle_info raises while angle_choice evaluates candidate k, that
\* error is the one leaving angle_choice, candidates 1..k were each called
\* once in order and none after k, nothing is returned, and the driver takes
\* no further step
C9_FailurePropagates ==
    (fn = "angle_choice" /\ raised \in SimErrors) =>
        /\ pc = "failed"
        /\ error = raised
        /\ result = << >>
        /\ Len(calls) = Len(min_eigs) + 1
        /\ Len(calls) <= Len(args.angle_range)
        /\ \A k \in 1..Len(calls) : Sent(calls[k]) = ExpectedCall1D(k)
        /\ calls[Len(calls)].ret = << >>
        /\ ~ENABLED Next1D

\* angle_info has raised RuntimeError on the second of three candidates
C9_Witness ==
    /\ fn = "angle_choice"
    /\ raised = "RuntimeError"
    /\ Len(args.angle_range) = 3
    /\ Len(calls) = 2
    /\ pc = "failed"

\* C10: a 1D scan calls the capability method for the candidates in the
\* order of the range, one call per candidate, the i-th entry of min_eigs is
\* what the i-th candidate's call returned, and on reaching its plot the
\* scan has evaluated every candidate
C10_InOrder ==
    Is1D =>
        /\ Len(calls) <= Len(Range1D)
        /\ Len(min_eigs) <= Len(calls)
        /\ Len(calls) <= Len(min_eigs) + 1
        /\ \A k \in 1..Len(calls) : Sent(calls[k]) = ExpectedCall1D(k)
        /\ \A k \in 1..Len(min_eigs) : calls[k].ret = <<min_eigs[k]>>
        /\ pc \in {"return", "done"} =>
              /\ Len(calls) = Len(Range1D)
              /\ Len(min_eigs) = Len(Range1D)

\* contrast_choice_single has returned from a range of three candidates that
\* is not sorted
C10_Witness ==
    /\ fn = "contrast_choice_single"
    /\ pc = "done"
    /\ args.contrast_range = <<2, 3, 1>>
    /\ Len(calls) = 3
    /\ min_eigs[1] # min_eigs[3]

IsWithTime == fn = "angle_choice_with_time"

\* the frames angle_choice_with_time has drawn, in order
IsFrame(o) == o.via = "matplotlib" /\ o.what = "frame"
Frames == SelectSeq(outputs, IsFrame)

\* the call angle_choice_with_time is to make as its k-th: the scans of the
\* time values follow one another, each over the whole angle_range
ExpectedTimeCall(k) ==
    LET n == Len(args.angle_range)
        t == ((k - 1) \div n) + 1
        a == ((k - 1) % n) + 1
    IN  Call("angle_info",
             << <<args.initial_angle, args.points, args.time_range[t]>>,
                <<args.angle_range[a], args.points, args.new_time>> >>,
             args.contrasts, << >>)

\* the minimum eigenvalues the scan of the t-th time value recorded
ScanOf(t) ==
    [a \in 1..Len(args.angle_range) |->
        calls[(t - 1) * Len(args.angle_range) + a].ret[1]]

\* C11 as claimed: angle_choice_with_time scans angle_range once per value of
\* time_range, in order, with the two-entry plan, and what it has produced
\* for the t-th time value when it returns is the best angle of that scan
C11_AsClaimed ==
    IsWithTime =>
        /\ \A k \in 1..Len(calls) : Sent(calls[k]) = ExpectedTimeCall(k)
        /\ pc = "done" =>
              /\ Len(Frames) = Len(args.time_range)
              /\ \A t \in 1..Len(Frames) :
                    Frames[t].x = <<args.angle_range[ArgMax(ScanOf(t))]>>

\* C11: angle_choice_with_time scans angle_range once per value of
\* time_range, in order, with the plan [(initial_angle, points, t),
\* (new_angle, points, new_time)]; it draws one frame per time value, in
\* time_range order, holding the whole curve (angle_range against the minimum
\* eigenvalues of that scan), and returns the animation, not a best angle
C11_FramePerTime ==
    IsWithTime =>
        /\ \A k \in 1..Len(calls) : Sent(calls[k]) = ExpectedTimeCall(k)
        /\ \A t \in 1..Len(Frames) :
              /\ Frames[t].x = args.angle_range
              /\ Frames[t].y = ScanOf(t)
        /\ pc = "animate" => Len(Frames) = i - 1
        /\ pc = "done" =>
              /\ Len(Frames) = Len(args.time_range)
              /\ Len(calls) = Len(args.time_range) * Len(args.angle_range)
              /\ result = <<"anim">>

\* angle_choice_with_time has returned from two time values and three
\* angles, the two curves it drew being different
C11_Witness ==
    /\ IsWithTime
    /\ pc = "done"
    /\ Len(args.time_range) = 2
    /\ Len(args.angle_range) = 3
    /\ Len(Frames) = 2
    /\ Frames[1].y # Frames[2].y

\* the structure is a refnx Structure or a Refl1D Stack
ValidStructure == structure.flavor \in {"Structure", "Stack"}

C13_RuntimeError ==
    (/\ fn \in {"_get_reflectivity_profile", "_get_sld_profile",
                "__vary_structure"}
     /\ ~ValidStructure
     /\ pc # "start") =>
        /\ pc = "failed"
        /\ error = "RuntimeError"
        /\ result = << >>

\* _get_reflectivity_profile has failed on a sample wrapping a Mock
C13_Witness ==
    /\ fn = "_get_reflectivity_profile"
    /\ structure = MockStructure
    /\ pc = "failed"
    /\ error = "RuntimeError"

\* the Refl1D layer l carries the name, thickness, roughness and real and
\* imaginary SLD of the refnx component c
SameLayer(l, c) ==
    /\ l.name = c.name
    /\ l.thickness = c.thick
    /\ l.interface = c.rough
    /\ l.rho = c.sld_real
    /\ l.irho = c.sld_imag

\* the structure after is a Stack under the name of the refnx structure
\* before, holding the components of before after the first, in reverse order,
\* and Air last
ConvertedToRefl1d(before, after) ==
    LET n == Len(before.layers)
    IN  /\ after.flavor = "Stack"
        /\ after.name = before.name
        /\ Len(after.layers) = IF n = 0 THEN 1 ELSE n
        /\ \A k \in 1..(n - 1) : SameLayer(after.layers[k], before.layers[n + 1 - k])
        /\ after.layers[Len(after.layers)] = AirLayer

C15_AsClaimed ==
    (fn = "angle_info" /\ ValidStructure /\ pc # "start" /\ raised = "") =>
        /\ pc = "done"
        /\ error = ""
        /\ result = <<"Fisher">>

\* the files save_plot has written, as (directory, file name)
Saved ==
    {<<outputs[n].dir, outputs[n].what>> :
        n \in {m \in 1..Len(outputs) : outputs[m].via = "save_plot"}}

ProfileFiles == {"sld_profile", "reflectivity_profile"}

\* C16: once run_main has returned, the directory of each of the six
\* predefined samples holds an sld_profile and a reflectivity_profile, and
\* every directory written to holds both
C16_BothProfiles ==
    (fn = "run_main" /\ pc = "done") =>
        /\ \A k \in 1..Len(PredefinedSamples) :
              \A f \in ProfileFiles : <<PredefinedSamples[k], f>> \in Saved
        /\ \A s \in Saved :
              \A f \in ProfileFiles : <<s[1], f>> \in Saved
        /\ Cardinality({s[1] : s \in Saved}) = 6

\* run_main has returned after saving all twelve figures
C16_Witness ==
    /\ fn = "run_main"
    /\ pc = "done"
    /\ Cardinality(Saved) = 12
    /\ error = ""

\* the four search drivers that return a best candidate
SearchDrivers ==
    {"angle_choice", "contrast_choice_single", "contrast_choice_double",
     "underlayer_choice"}

PlotX == IF Is1D THEN Range1D ELSE x
PlotY == IF Is1D THEN min_eigs ELSE y
PlotZ == IF Is1D THEN << >> ELSE min_eigs

C18_AsClaimed ==
    (fn = "scan_parameters" /\ pc = "failed" /\ raised \in SimErrors) =>
        Changed = {}

\* the baseline the caller passed
PassedBaseline == BaselineOf(fn, args)

\* the list a 1D scan passed in its k-th call, baseline entries first
PassedList(k) ==
    IF fn = "angle_choice" THEN calls[k].angle_times ELSE calls[k].contrasts

\* the entry a 1D scan is to add for the k-th candidate
CandidateEntry(k) ==
    IF fn = "angle_choice"
    THEN <<args.angle_range[k], args.points_new, args.time_new>>
    ELSE args.contrast_range[k]

\* C19: angle_choice and contrast_choice_single leave the caller's baseline
\* list as it was passed, and every evaluation gets the baseline entries
\* followed by exactly one entry, that of its own candidate
C19_BaselineUntouched ==
    Is1D =>
        /\ baseline = PassedBaseline
        /\ \A k \in 1..Len(calls) :
              /\ Len(PassedList(k)) = Len(PassedBaseline) + 1
              /\ SubSeq(PassedList(k), 1, Len(PassedBaseline)) = PassedBaseline
              /\ PassedList(k)[Len(PassedList(k))] = CandidateEntry(k)

\* angle_choice has returned from three candidates on a baseline of one
\* entry
C19_Witness ==
    /\ fn = "angle_choice"
    /\ pc = "done"
    /\ Len(PassedBaseline) = 1
    /\ Len(calls) = 3
    /\ Len(calls[3].angle_times) = 2

IsConversions == fn = "conversions"

\* the call c returned
Succeeded(c) == c.ret # << >>

\* the calls of cs that returned, in order
SuccessfulConversions(cs) == SelectSeq(cs, Succeeded)

\* no two neighbours of cs are calls of the same method
Alternating(cs) ==
    \A k \in 1..(Len(cs) - 1) : cs[k].method # cs[k + 1].method

\* the flavour a conversion method needs to find
NeededFlavor(method) ==
    IF method = "to_refl1d" THEN "Structure" ELSE "Stack"

\* C21: a call of to_refl1d returns exactly when the structure is a refnx
\* Structure, a call of to_refnx exactly when it is a Refl1D Stack; a call
\* made in any other state raises AssertionError and leaves self.structure
\* as it was; and the calls that returned, in the order they were made,
\* alternate between to_refl1d and to_refnx.
C21_Alternate ==
    [][(IsConversions /\ Len(calls') = Len(calls) + 1) =>
        LET c == calls'[Len(calls')]
        IN  /\ Succeeded(c) <=> structure.flavor = NeededFlavor(c.method)
            /\ ~Succeeded(c) =>
                   error' = "AssertionError" /\ structure' = structure
            /\ Succeeded(c) => structure' # structure
            /\ Alternating(SuccessfulConversions(calls'))]_vars

\* three calls were made: to_refl1d returned, a second to_refl1d was refused
\* with the Stack left in place, and to_refnx then returned
C21_Witness ==
    /\ IsConversions
    /\ Len(calls) = 3
    /\ calls[1].method = "to_refl1d" /\ Succeeded(calls[1])
    /\ calls[2].method = "to_refl1d" /\ ~Succeeded(calls[2])
    /\ calls[3].method = "to_refnx" /\ Succeeded(calls[3])
    /\ structure.flavor = "Structure"

\* the refnx structures a and b agree in name, in the number of their
\* layers and, layer by layer, in name, thickness, roughness and SLD
SameStructure(a, b) ==
    /\ a.flavor = b.flavor
    /\ a.name = b.name
    /\ Len(a.layers) = Len(b.layers)
    /\ \A k \in 1..Len(a.layers) :
           /\ a.layers[k].name = b.layers[k].name
           /\ a.layers[k].thick = b.layers[k].thick
           /\ a.layers[k].rough = b.layers[k].rough
           /\ a.layers[k].sld_real = b.layers[k].sld_real
           /\ a.layers[k].sld_imag = b.layers[k].sld_imag

\* to_refl1d() and then to_refnx() were called on a Sample made with a refnx
\* Structure
RoundTripCalled ==
    /\ IsConversions
    /\ args.structure.flavor = "Structure"
    /\ Len(calls) = 2
    /\ calls[1].method = "to_refl1d"
    /\ calls[2].method = "to_refnx"

\* C22 as stated: to_refl1d() followed by to_refnx() gives back, for any
\* refnx structure, a refnx structure of the same name with the same layers
\* in the same order, the first (fronting) layer included, each with its
\* name, thickness, roughness and real and imaginary SLD.
C22_AsClaimed ==
    RoundTripCalled =>
        /\ Succeeded(calls[1]) /\ Succeeded(calls[2])
        /\ SameStructure(structure, args.structure)


(***************************************************************************)
(* Sample.get_structures (C23)                                             *)
(***************************************************************************)
\* some layer of the structure s is a MagneticLayer
HasMagneticLayer(s) ==
    \E k \in 1..Len(s.layers) : IsMagneticLayer(s.layers[k])

\* C23 as stated: get_structures returns the one-element list
\* [self.structure] when no layer is a MagneticLayer, and otherwise exactly
\* two structures, in which every MagneticLayer is replaced by its spin_up,
\* respectively spin_down, slab and every other layer is the original one.
C23_AsClaimed ==
    (fn = "get_structures" /\ pc = "done") =>
        IF HasMagneticLayer(structure)
        THEN result[1] =
                 <<SpinUpStructure(structure), SpinDownStructure(structure)>>
        ELSE result[1] = <<structure>>

(***************************************************************************)
(* MonolayerEllen._create_objectives (C24)                                 *)
(***************************************************************************)
\* the SLD of the contrast a label names: D2O, or null-reflecting water
ContrastNamedBy(label) ==
    IF label = "hDPPG-D2O" THEN ContrastSlds.d2o ELSE ContrastSlds.nrw

\* C24 as stated: after _create_objectives there is one structure and one
\* objective for each measured contrast, len(objectives) = len(structures)
\* = len(labels), and the structure at index i is built for the contrast
\* that labels[i] names.
C24_AsClaimed ==
    (fn = "_create_objectives" /\ pc = "done") =>
        /\ Len(monolayer.objectives) = Len(monolayer.structures)
        /\ Len(monolayer.structures) = Len(monolayer.labels)
        /\ \A k \in 1..Len(monolayer.labels) :
               monolayer.structures[k].contrast =
                   ContrastNamedBy(monolayer.labels[k])


(***************************************************************************)
(* Empty candidate ranges (C25)                                            *)
(***************************************************************************)
EmptyRangeDrivers ==
    {"angle_choice", "contrast_choice_single", "underlayer_choice"}

\* the driver was given no candidate to try
EmptyRange ==
    /\ fn \in EmptyRangeDrivers
    /\ IF fn = "underlayer_choice"
       THEN args.thickness_range = << >> \/ args.sld_range = << >>
       ELSE Range1D = << >>

\* the plot of a search that tried nothing, and its file
EmptyPlot ==
    IF fn = "underlayer_choice"
    THEN <<Figure(fn, << >>, << >>, << >>),
           SavePlot(SampleName, fn, << >>, << >>, << >>)>>
    ELSE <<Figure(fn, Range1D, << >>, << >>),
           SavePlot(SampleName, fn, Range1D, << >>, << >>)>>

\* C25 as stated: with an empty candidate range the three drivers evaluate
\* nothing, return no candidate, and fail before any plot or file output.
C25_AsClaimed ==
    EmptyRange =>
        /\ calls = << >>
        /\ result = << >>
        /\ pc # "done"
        /\ outputs = << >>

\* C25, amended: with an empty candidate range the three drivers evaluate
\* nothing and return no candidate.  On a sample without the capability
\* they fail at once with AssertionError and no output.  Otherwise they go
\* straight to the plot: either the plotting fails, with no output, or the
\* empty plot is drawn and saved and only then does np.argmax of the empty
\* list of eigenvalues raise ValueError.
C25_FailsAfterPlot ==
    EmptyRange =>
        /\ calls = << >>
        /\ result = << >>
        /\ min_eigs = << >>
        /\ pc \in {"start", "loop", "return", "failed"}
        /\ pc \in {"start", "loop"} => outputs = << >>
        /\ pc = "return" => outputs = EmptyPlot
        /\ pc = "failed" =>
               \/ LacksCapability /\ error = "AssertionError"
                      /\ outputs = << >>
               \/ ~LacksCapability /\ raised = "PlotError"
                      /\ outputs = << >>
               \/ ~LacksCapability /\ raised = "" /\ error = "ValueError"
                      /\ outputs = EmptyPlot

\* angle_choice, given an empty angle_range, has drawn and saved its plot
\* and then failed with ValueError
C25_Witness ==
    /\ fn = "angle_choice"
    /\ args.angle_range = << >>
    /\ pc = "failed"
    /\ error = "ValueError"
    /\ calls = << >>
    /\ outputs = EmptyPlot

=============================================================================
